---- MODULE Spec2Model ----
(***************************************************************************)
(* Model of ingredx.engine.IngredientEngine: the ingredient list extractor *)
(* (extract_ingredients_from_text), the generation entry (generate) with   *)
(* its persistent rating cache, and the batch analyzer                     *)
(* (analyze_ingredient_list).                                              *)
(*                                                                         *)
(* Text is a sequence of one-character strings over an ASCII alphabet, so  *)
(* that the regular expressions and the str methods of the source are      *)
(* computed character by character.                                        *)
(***************************************************************************)
EXTENDS Integers, Sequences, FiniteSets, TLC

\* ------------------------------------------------------------------------
\* Characters and the str methods the source uses
\* ------------------------------------------------------------------------

Lowers ==
  << "a","b","c","d","e","f","g","h","i","j","k","l","m",
     "n","o","p","q","r","s","t","u","v","w","x","y","z" >>

Uppers ==
  << "A","B","C","D","E","F","G","H","I","J","K","L","M",
     "N","O","P","Q","R","S","T","U","V","W","X","Y","Z" >>

LowerSet == { Lowers[i] : i \in DOMAIN Lowers }

UpperSet == { Uppers[i] : i \in DOMAIN Uppers }

DigitSet == { "0","1","2","3","4","5","6","7","8","9" }

LetterSet == LowerSet \cup UpperSet

\* \w of the re module, on the alphabet of the model
WordSet == LetterSet \cup DigitSet \cup { "_" }

\* \s of the re module and the default of str.strip(), on the alphabet
Whitespace == { " ", "\t", "\n", "\r" }

ToLowerMap == [ c \in UpperSet |-> Lowers[CHOOSE i \in DOMAIN Uppers : Uppers[i] = c] ]

ToUpperMap == [ c \in LowerSet |-> Uppers[CHOOSE i \in DOMAIN Lowers : Lowers[i] = c] ]

LowerChar(c) == IF c \in UpperSet THEN ToLowerMap[c] ELSE c

UpperChar(c) == IF c \in LowerSet THEN ToUpperMap[c] ELSE c

\* str.lower()
Lower(s) == [ i \in 1..Len(s) |-> LowerChar(s[i]) ]

\* str.title(): a cased character is upper-cased when the character before
\* it is not cased, and lower-cased otherwise
Title(s) ==
  [ i \in 1..Len(s) |->
      IF i > 1 /\ s[i-1] \in LetterSet THEN LowerChar(s[i]) ELSE UpperChar(s[i]) ]

\* str.isdigit()
IsDigit(s) == Len(s) > 0 /\ \A i \in 1..Len(s) : s[i] \in DigitSet

\* str.strip(chars)
StripChars(s, chars) ==
  LET keep == { i \in 1..Len(s) : s[i] \notin chars }
  IN  IF keep = {} THEN << >>
      ELSE LET lo == CHOOSE i \in keep : \A j \in keep : i <= j
               hi == CHOOSE i \in keep : \A j \in keep : j <= i
           IN  SubSeq(s, lo, hi)

\* str.strip()
Strip(s) == StripChars(s, Whitespace)

\* s[i:].startswith(w), w given in lower case, compared as re.IGNORECASE does
MatchesAt(s, i, w) ==
  /\ i >= 1
  /\ i + Len(w) - 1 <= Len(s)
  /\ \A k \in 1..Len(w) : LowerChar(s[i + k - 1]) = w[k]

\* first index >= i of s whose character is not in set (Len(s)+1 if none)
RunEnd(s, i, set) ==
  LET stops == { j \in i..Len(s) : s[j] \notin set }
  IN  IF stops = {} THEN (IF i > Len(s) THEN i ELSE Len(s) + 1)
      ELSE CHOOSE j \in stops : \A k \in stops : j <= k

\* the concatenation of ss[lo..hi], by halves
RECURSIVE Flatten(_, _, _)
Flatten(ss, lo, hi) ==
  IF lo > hi THEN << >>
  ELSE IF lo = hi THEN ss[lo]
  ELSE LET mid == (lo + hi) \div 2
       IN  Flatten(ss, lo, mid) \o Flatten(ss, mid + 1, hi)

Concat(ss) == Flatten(ss, 1, Len(ss))

\* re.sub(r"[set]{minRun,}", " ", s) for minRun 1 or 2: a run of at least
\* minRun characters of set becomes one space
SubRuns(s, set, minRun) ==
  LET inRun(i) == s[i] \in set
      first(i) == inRun(i) /\ (i = 1 \/ ~inRun(i - 1))
      long(i)  == minRun = 1 \/ (i < Len(s) /\ inRun(i + 1))
      piece(i) == IF first(i) THEN (IF long(i) THEN << " " >> ELSE << s[i] >>)
                  ELSE IF inRun(i) THEN << >>
                  ELSE << s[i] >>
  IN  Concat([ i \in 1..Len(s) |-> piece(i) ])

\* ------------------------------------------------------------------------
\* List extractor: extract_ingredients_from_text, stage by stage
\* ------------------------------------------------------------------------

\* [\n\r\t|*_...] of the noise pattern, on the alphabet of the model
NoiseSet == { "\n", "\r", "\t", "|", "*", "_" }

\* [;,/\.]
DelimSet == { ";", ",", "/", "." }

\* [:\-_...] after the header word, on the alphabet of the model
HeaderPunct == { ":", "-", "_" }

\* the characters str.strip(" .;:-") removes
TrimSet == { " ", ".", ";", ":", "-" }

\* [A-Za-z() ] of the headerless pattern
ProbableClass == LetterSet \cup { "(", ")", " " }

\* the characters [^a-zA-Z0-9(),.\s-] leaves alone
KeptSet == LetterSet \cup DigitSet \cup { "(", ")", ",", ".", "-" } \cup Whitespace

\* the alternatives of the boilerplate split, in the order of the pattern
Markers ==
  << <<"c","o","n","t","a","i","n","s">>,
     <<"m","a","n","u","f","a","c","t","u","r","e","d">>,
     <<"n","u","t","r","i","t","i","o","n">>,
     <<"d","i","s","t","r","i","b","u","t","e","d">>,
     <<"m","a","y"," ","c","o","n","t","a","i","n">>,
     <<"a","l","l","e","r","g","e","n">>,
     <<"s","t","o","r","a","g","e">>,
     <<"w","a","r","n","i","n","g">> >>

\* the alternatives of the re.match that drops a part
PartMarkers ==
  << <<"c","o","n","t","a","i","n","s">>,
     <<"m","a","n","u","f","a","c","t","u","r","e","d">>,
     <<"w","a","r","n","i","n","g">> >>

WordCountLimit == 80

MinDelimiters == 2

\* stage 0: strip, noise runs to one space, runs of 2+ whitespace to one space
NormalizeNoise(raw_text) ==
  LET t0 == Strip(raw_text)
      t1 == SubRuns(t0, NoiseSet, 1)
      t2 == SubRuns(t1, Whitespace, 2)
  IN  Strip(t2)

\* ingr[eai]{0,2}d[iy]?e?n?t?s?\s*[:\-_]*\s* tried at index i: the index where
\* group 1 starts, or 0 when the pattern does not match at i. [eai]{0,2} is
\* greedy and gives characters back until a "d" follows; everything after the
\* "d" is optional, so the greedy choice is the match.
Opt(s, i, set) == IF i <= Len(s) /\ LowerChar(s[i]) \in set THEN i + 1 ELSE i

HeaderEndAt(s, i) ==
  IF ~MatchesAt(s, i, <<"i","n","g","r">>) THEN 0
  ELSE LET p  == i + 4
           v1 == p <= Len(s) /\ LowerChar(s[p]) \in {"e","a","i"}
           v2 == v1 /\ p + 1 <= Len(s) /\ LowerChar(s[p+1]) \in {"e","a","i"}
           isD(k) == k <= Len(s) /\ LowerChar(s[k]) = "d"
           d  == IF v2 /\ isD(p + 2) THEN p + 2
                 ELSE IF v1 /\ isD(p + 1) THEN p + 1
                 ELSE IF isD(p) THEN p
                 ELSE 0
       IN  IF d = 0 THEN 0
           ELSE LET a1 == Opt(s, d + 1, {"i","y"})
                    a2 == Opt(s, a1, {"e"})
                    a3 == Opt(s, a2, {"n"})
                    a4 == Opt(s, a3, {"t"})
                    a5 == Opt(s, a4, {"s"})
                    a6 == RunEnd(s, a5, Whitespace)
                    a7 == RunEnd(s, a6, HeaderPunct)
                IN  RunEnd(s, a7, Whitespace)

\* re.search of the header pattern: leftmost index where it matches, 0 if none
HeaderStart(s) ==
  LET hits == { i \in 1..Len(s) : HeaderEndAt(s, i) # 0 }
  IN  IF hits = {} THEN 0 ELSE CHOOSE i \in hits : \A j \in hits : i <= j

\* index of the first boilerplate marker in section, 0 if none
MarkerStart(section) ==
  LET hits == { i \in 1..Len(section) :
                  \E m \in DOMAIN Markers : MatchesAt(section, i, Markers[m]) }
  IN  IF hits = {} THEN 0 ELSE CHOOSE i \in hits : \A j \in hits : i <= j

\* re.split(markers, section)[0]
CutAtMarker(section) ==
  LET m == MarkerStart(section)
  IN  IF m = 0 THEN section ELSE SubSeq(section, 1, m - 1)

\* stage 1: the section after the header, cut at the first marker. The
\* source's None (no header) and "" are both falsy in "if not section", so
\* both are the empty sequence here.
HeaderSection(text) ==
  LET h == HeaderStart(text)
  IN  IF h = 0 THEN << >>
      ELSE CutAtMarker(SubSeq(text, HeaderEndAt(text, h), Len(text)))

\* len(re.findall(r"[;,/\.]", text))
DelimiterCount(text) == Cardinality({ i \in 1..Len(text) : text[i] \in DelimSet })

\* len(text.split())
WordCount(text) ==
  Cardinality({ i \in 1..Len(text) :
                  /\ text[i] \notin Whitespace
                  /\ (i = 1 \/ text[i-1] \in Whitespace) })

\* (?:[,;/\.]\s*[A-Za-z() ]+)* from index p on: <<end index, groups matched>>.
\* The text was normalized, so its only whitespace is " ", a member of the
\* class: \s*[A-Za-z() ]+ then takes the maximal run of class characters, and
\* giving characters back never lets the next group start. The groups end
\* before the first delimiter that no class character follows.
ProbableGroups(s, p) ==
  LET r     == RunEnd(s, p, DelimSet \cup ProbableClass)
      bare  == { j \in p..(r - 1) :
                   s[j] \in DelimSet /\ (j + 1 >= r \/ s[j+1] \in DelimSet) }
      e     == IF bare = {} THEN r ELSE CHOOSE j \in bare : \A k \in bare : j <= k
  IN  IF p <= Len(s) /\ s[p] \in DelimSet
        THEN << e, Cardinality({ j \in p..(e - 1) : s[j] \in DelimSet }) >>
        ELSE << p, 0 >>

\* [A-Z][a-z]+\s*(group){2,} tried at index i: end index (exclusive), 0 if no match
ProbableEndAt(s, i) ==
  IF ~(i <= Len(s) /\ s[i] \in UpperSet) THEN 0
  ELSE LET a == RunEnd(s, i + 1, LowerSet)
       IN  IF a = i + 1 THEN 0
           ELSE LET g == ProbableGroups(s, RunEnd(s, a, Whitespace))
                IN  IF g[2] >= 2 THEN g[1] ELSE 0

\* re.search of the headerless pattern: group 1, or the empty sequence
ProbableSection(text) ==
  LET hits == { i \in 1..Len(text) : ProbableEndAt(text, i) # 0 }
  IN  IF hits = {} THEN << >>
      ELSE LET i == CHOOSE i \in hits : \A j \in hits : i <= j
           IN  SubSeq(text, i, ProbableEndAt(text, i) - 1)

\* stage 2: taken only when stage 1 left nothing
InferSection(text) ==
  IF DelimiterCount(text) >= MinDelimiters /\ WordCount(text) < WordCountLimit
    THEN text
    ELSE ProbableSection(text)

\* stages 1 and 2 together: the candidate section ("" when there is none)
CandidateSection(text) ==
  LET section == HeaderSection(text)
  IN  IF section = << >> THEN InferSection(text) ELSE section

\* re.sub(r"([;,/\.])(?=[A-Za-z])", r"\1 ", section)
InsertSpaces(s) ==
  LET piece(i) == IF s[i] \in DelimSet /\ i < Len(s) /\ s[i+1] \in LetterSet
                    THEN << s[i], " " >> ELSE << s[i] >>
  IN  Concat([ i \in 1..Len(s) |-> piece(i) ])

\* .replace(";", ",").replace("/", ",").replace(".", ",")
FoldDelimiters(s) ==
  [ i \in 1..Len(s) |-> IF s[i] \in { ";", "/", "." } THEN "," ELSE s[i] ]

\* re.sub(r"[^a-zA-Z0-9(),.\s-]", " ", section)
DropForeign(s) == [ i \in 1..Len(s) |-> IF s[i] \in KeptSet THEN s[i] ELSE " " ]

\* stage 3
NormalizeDelimiters(section) ==
  LET s1 == InsertSpaces(section)
      s2 == FoldDelimiters(s1)
      s3 == DropForeign(s2)
      s4 == SubRuns(s3, Whitespace, 2)
  IN  Strip(s4)

\* ,(?![^()]*\)): a comma splits unless the next parenthesis after it is ")"
SplitsAt(s, i) ==
  /\ s[i] = ","
  /\ LET j == RunEnd(s, i + 1, KeptSet \ { "(", ")" })
     IN  ~(j <= Len(s) /\ s[j] = ")")

\* the members of a set of indices, in increasing order
Sorted(indices, n) ==
  Concat([ i \in 1..n |-> IF i \in indices THEN << i >> ELSE << >> ])

\* re.split: the pieces of s between the separators, which start at the
\* indices of starts and end at the indices ends gives for them
PiecesBetween(s, starts, ends) ==
  LET c == Sorted(starts, Len(s))
  IN  [ k \in 1..(Len(c) + 1) |->
          SubSeq(s, IF k = 1 THEN 1 ELSE ends[c[k-1]] + 1,
                    IF k > Len(c) THEN Len(s) ELSE c[k] - 1) ]

SplitParts(section) ==
  PiecesBetween(section, { i \in 1..Len(section) : SplitsAt(section, i) },
                [ i \in 1..Len(section) |-> i ])

\* (?<!\b[A-Z])[.] at index i: a period not preceded by a capital letter that
\* starts a word
PeriodSplitsAt(p, i) ==
  /\ p[i] = "."
  /\ ~(/\ i >= 2
       /\ p[i-1] \in UpperSet
       /\ (i = 2 \/ p[i-2] \notin WordSet))

\* \s{2,} matches at index i: i starts a run of two or more whitespace
SpacesSplitAt(p, i) ==
  /\ p[i] \in Whitespace
  /\ (i = 1 \/ p[i-1] \notin Whitespace)
  /\ i < Len(p) /\ p[i+1] \in Whitespace

\* re.split(r"\s{2,}|(?<!\b[A-Z])[.]", p)
SplitSub(p) ==
  PiecesBetween(p,
    { i \in 1..Len(p) : SpacesSplitAt(p, i) \/ PeriodSplitsAt(p, i) },
    [ i \in 1..Len(p) |-> IF p[i] = "." THEN i ELSE RunEnd(p, i, Whitespace) - 1 ])

\* re.match(r"contains|manufactured|warning", p, re.I)
StartsWithMarker(p) == \E m \in DOMAIN PartMarkers : MatchesAt(p, 1, PartMarkers[m])

AndOr == { <<"a","n","d">>, <<"o","r">> }

\* the inner loop over subparts
KeepSub(s) == Len(s) > 1 /\ Lower(s) \notin AndOr

CleanSubparts(subparts) ==
  LET sub(i) == Title(StripChars(subparts[i], TrimSet))
  IN  Concat([ i \in 1..Len(subparts) |->
                 IF KeepSub(sub(i)) THEN << sub(i) >> ELSE << >> ])

\* the test a part must pass before it is broken into subparts
KeepPart(p) == Len(p) > 1 /\ ~IsDigit(p) /\ ~StartsWithMarker(p)

\* stage 4: the list "cleaned"
CleanParts(parts) ==
  LET part(i) == Title(StripChars(parts[i], TrimSet))
  IN  Concat([ i \in 1..Len(parts) |->
                 IF KeepPart(part(i)) THEN CleanSubparts(SplitSub(part(i)))
                 ELSE << >> ])

\* a membership test that looks at the item just before i only
AlreadySeenAdjacent(cleaned, i) ==
  i > 1 /\ Lower(cleaned[i - 1]) = Lower(cleaned[i])

\* the membership test of the deduplication loop at item i: "seen" holds the
\* lower-cased forms of the items before i
AlreadySeen(cleaned, i) == \E k \in 1..(i - 1) : Lower(cleaned[k]) = Lower(cleaned[i])

\* stage 5: keep the first occurrence of each lower-cased item
Deduplicate(cleaned) ==
  Concat([ i \in 1..Len(cleaned) |->
             IF AlreadySeen(cleaned, i) THEN << >> ELSE << cleaned[i] >> ])

\* the list "cleaned" for a non-empty candidate section
CleanedOf(section) == CleanParts(SplitParts(NormalizeDelimiters(section)))

\* the early return on empty or whitespace-only input
IsBlank(raw_text) == Strip(raw_text) = << >>

\* an extractor that splits the stripped text with no early return
ExtractSplitOnly(raw_text) == SplitParts(Strip(raw_text))

\* extract_ingredients_from_text
extract_ingredients_from_text(raw_text) ==
  IF IsBlank(raw_text) THEN << >>
  ELSE LET section == CandidateSection(NormalizeNoise(raw_text))
       IN  IF section = << >> THEN << >>
           ELSE Deduplicate(CleanedOf(section))

\* ------------------------------------------------------------------------
\* JSON values, generator output and the rating arithmetic of generate
\* ------------------------------------------------------------------------

\* A JSON value as json.loads returns it: t is its Python type, n its number
\* in thousandths (a bool: 0 or 1), s its characters when it is a string.
\* "absent" is what dict.get returns for a missing key (None, like "null").
JAbsent == [ t |-> "absent", n |-> 0, s |-> << >> ]

JNull == [ t |-> "null", n |-> 0, s |-> << >> ]

JList == [ t |-> "list", n |-> 0, s |-> << >> ]

JNum(m) == [ t |-> "num", n |-> m, s |-> << >> ]

JBool(b) == [ t |-> "bool", n |-> IF b THEN 1 ELSE 0, s |-> << >> ]

JStr(chars) == [ t |-> "str", n |-> 0, s |-> chars ]

\* A JSON document: t is "object", "array" or "invalid" (text json.loads
\* rejects); an object is given by the fields the engine and its prompt name.
NoDoc ==
  [ t |-> "invalid", health_safety_rating |-> JAbsent, edible |-> JAbsent,
    common_uses |-> JAbsent ]

ArrayDoc ==
  [ t |-> "array", health_safety_rating |-> JAbsent, edible |-> JAbsent,
    common_uses |-> JAbsent ]

\* {} : what analyze_ingredient_list stores for a failed unit
EmptyObject ==
  [ t |-> "object", health_safety_rating |-> JAbsent, edible |-> JAbsent,
    common_uses |-> JAbsent ]

ObjectDoc(rating, edible, uses) ==
  [ t |-> "object", health_safety_rating |-> rating, edible |-> edible,
    common_uses |-> uses ]

\* A text the generator returns: its characters, or the JSON document it
\* spells (doc.t = "invalid" when it is not JSON at all)
Prose(chars) == [ chars |-> chars, doc |-> NoDoc ]

JsonText(doc) == [ chars |-> << >>, doc |-> doc ]

StripText(text) == [ chars |-> Strip(text.chars), doc |-> text.doc ]

\* f"[Error: {e}]"
ErrorText(e) == Prose(<< "[","E","r","r","o","r",":"," " >> \o e \o << "]" >>)

DigitChars == << "0","1","2","3","4","5","6","7","8","9" >>

DigitOf == [ c \in DigitSet |-> (CHOOSE i \in DOMAIN DigitChars : DigitChars[i] = c) - 1 ]

\* the value of a run of decimal digits
RECURSIVE DigitsValue(_)
DigitsValue(ds) ==
  IF ds = << >> THEN 0
  ELSE 10 * DigitsValue(SubSeq(ds, 1, Len(ds) - 1)) + DigitOf[ds[Len(ds)]]

\* index of the first "." of body, Len(body) + 1 if it has none
DotIndex(body) ==
  LET dots == { i \in 1..Len(body) : body[i] = "." }
  IN  IF dots = {} THEN Len(body) + 1 ELSE CHOOSE i \in dots : \A j \in dots : i <= j

AllDigits(ds) == \A i \in 1..Len(ds) : ds[i] \in DigitSet

\* the value, in thousandths, of the integer digits ip and the decimals fp
ParseParts(ip, fp, negative) ==
  IF AllDigits(ip) /\ AllDigits(fp) /\ Len(ip) + Len(fp) >= 1 /\ Len(fp) <= 3
    THEN [ ok |-> TRUE,
           v  |-> (IF negative THEN 0 - 1 ELSE 1) *
                  (1000 * DigitsValue(ip)
                     + DigitsValue(SubSeq(fp \o << "0", "0", "0" >>, 1, 3))) ]
    ELSE [ ok |-> FALSE, v |-> 0 ]

ParseUnsigned(body, negative) ==
  ParseParts(SubSeq(body, 1, DotIndex(body) - 1),
             SubSeq(body, DotIndex(body) + 1, Len(body)), negative)

ParseStripped(t) ==
  IF t # << >> /\ t[1] \in { "-", "+" } THEN ParseUnsigned(Tail(t), t[1] = "-")
  ELSE ParseUnsigned(t, FALSE)

\* float(str) on decimal literals with at most three decimals: the value in
\* thousandths, or ok = FALSE for the ValueError
ParseFloat(chars) == ParseStripped(Strip(chars))

\* float(x) for a JSON value x: TypeError for None and containers, ValueError
\* for a string that is no number
Float(x) ==
  CASE x.t = "num"  -> [ ok |-> TRUE, v |-> x.n ]
    [] x.t = "bool" -> [ ok |-> TRUE, v |-> 1000 * x.n ]
    [] x.t = "str"  -> ParseFloat(x.s)
    [] OTHER        -> [ ok |-> FALSE, v |-> 0 ]

\* f"{m:.2f}" for a number of m thousandths, 0 <= m < 9995, m not ending in 5
\* (no ties): rounded to hundredths and written with two decimals
Fmt2(m) ==
  LET c == (m + 5) \div 10
  IN  << DigitChars[(c \div 100) + 1], ".",
         DigitChars[((c % 100) \div 10) + 1], DigitChars[(c % 10) + 1] >>

\* whether f"{x:.2f}" is defined for the value x: a str raises ValueError, a
\* list TypeError (None never reaches the format)
CanFormat(x) == x.t \in { "num", "bool" }

\* f"{x:.2f}" for a value x with CanFormat(x)
FormatRating(x) == Fmt2(IF x.t = "bool" THEN 1000 * x.n ELSE x.n)

\* the admission test of generate: json.loads and .get succeed, float()
\* succeeds, and 0 <= rating <= 1
InRange(v) == 0 <= v /\ v <= 1000

\* an admission test without the range check
AdmitsAnyRating(text) ==
  text.doc.t = "object" /\ Float(text.doc.health_safety_rating).ok

Admits(text) ==
  /\ text.doc.t = "object"
  /\ Float(text.doc.health_safety_rating).ok
  /\ InRange(Float(text.doc.health_safety_rating).v)

\* ------------------------------------------------------------------------
\* State
\* ------------------------------------------------------------------------

VARIABLES
  cache_file,    \* the store file: [kind, data], data a map key -> document
  memory,        \* self._memory
  chat_history,  \* self.chat_history
  rated,         \* history: key -> the float of its last admitted rating
  last,          \* the last generate call: its inputs and what it did
  batch,         \* the last analyze_ingredient_list call and its result
  ex,            \* the extractor harness: input, result, re-extraction
  sh,            \* generate calls in flight on one store file, step by step
  pool           \* one analyze_ingredient_list call, unit by unit

vars == << cache_file, memory, chat_history, rated, last, batch, ex, sh, pool >>

\* {} as a Python dict
EmptyStore == << >>

Put(map, k, v) == [ x \in (DOMAIN map) \cup { k } |-> IF x = k THEN v ELSE map[x] ]

\* None, for known_rating
None == JAbsent

\* The store file: kind is "missing", "unreadable" (open fails), "garbage"
\* (text json.load rejects) or "snapshot" (a JSON object, given by data);
\* writable tells whether open(cache_file, "w") succeeds.
\* _load_cache: the parsed file, or {} when there is none or the try fails
load_cache(file) == IF file.kind = "snapshot" THEN file.data ELSE EmptyStore

\* _save_cache: the whole map replaces the file, unless the try fails
save_cache(file, mem) ==
  IF file.writable THEN [ kind |-> "snapshot", data |-> mem, writable |-> TRUE ]
  ELSE file

\* ingredient_name.lower().strip()
NameKey(ingredient_name) == Strip(Lower(ingredient_name))

\* line 60: .get on a stored value that is no JSON object has no such
\* attribute
LookupRaises(mem, name_key) == name_key \in DOMAIN mem /\ mem[name_key].t # "object"

\* the lookup of known_rating: dict.get gives None for a missing key and for
\* a JSON null
KnownRating(mem, name_key) ==
  IF name_key \in DOMAIN mem
       /\ mem[name_key].health_safety_rating.t \notin { "absent", "null" }
    THEN mem[name_key].health_safety_rating
    ELSE None

HistoryWindow == 8

\* self.chat_history[-8:]
LastTurns(history) ==
  IF Len(history) <= HistoryWindow THEN history
  ELSE SubSeq(history, Len(history) - HistoryWindow + 1, Len(history))

\* A prompt, by the parts the templates are filled with
NoPrompt ==
  [ template |-> "none", ingredient |-> << >>, language |-> "",
    rating_hint |-> << >>, context |-> << >> ]

\* _build_chat_prompt
build_chat_prompt(history, language) ==
  [ template |-> "chat", ingredient |-> << >>, language |-> language,
    rating_hint |-> << >>, context |-> LastTurns(history) ]

\* a composer that has a template for the mode "list" as well
ValidModesWithList == { "blurb", "overview", "schema", "chat", "list" }

\* the modes _build_generation_prompt has a branch for
ValidModes == { "blurb", "overview", "schema", "chat" }

\* a composer whose schema template has lost its rating_hint
HintModesOverviewOnly == { "overview" }

\* the modes whose template starts with rating_hint
HintModes == { "overview", "schema" }

\* rating_hint is formatted before the mode is looked at
HintRaises(known_rating) == known_rating # None /\ ~CanFormat(known_rating)

\* _build_generation_prompt: [raised, exc, prompt]
build_generation_prompt(history, ingredient_name, mode, language, known_rating) ==
  LET rating_hint == IF known_rating # None THEN FormatRating(known_rating) ELSE << >>
  IN  IF HintRaises(known_rating)
        THEN [ raised |-> TRUE, prompt |-> NoPrompt,
               exc |-> IF known_rating.t = "str" THEN "ValueError" ELSE "TypeError" ]
      ELSE IF mode = "chat"
        THEN [ raised |-> FALSE, exc |-> "", prompt |-> build_chat_prompt(history, language) ]
      ELSE IF mode \in ValidModes
        THEN [ raised |-> FALSE, exc |-> "",
               prompt |-> [ template |-> mode, ingredient |-> ingredient_name,
                            language |-> language,
                            rating_hint |-> IF mode \in HintModes THEN rating_hint ELSE << >>,
                            context |-> << >> ] ]
      ELSE [ raised |-> TRUE, exc |-> "ValueError", prompt |-> NoPrompt ]

\* What one call of the completion API does: it raises (ok = FALSE) or
\* returns content
ApiFailure == [ ok |-> FALSE, content |-> Prose(<< >>) ]

ApiReturns(text) == [ ok |-> TRUE, content |-> text ]

ApiError == << "t","i","m","e","o","u","t" >>

\* OpenAISummarizer.summarize: the stripped content, or the inline error
summarize(api) == IF api.ok THEN StripText(api.content) ELSE ErrorText(ApiError)

RatingLineOpen == << "\n","\n","[","H","e","a","l","t","h"," ","R","a","t","i","n","g",":"," " >>

\* f"{text_output.strip()}\n\n[Health Rating: {known_rating:.2f}]"
AppendRating(text, known_rating) ==
  Prose(Strip(text.chars) \o RatingLineOpen \o FormatRating(known_rating) \o << "]" >>)

\* the heading of the suggestions (its emoji is outside the alphabet)
FollowUpHeading == << "\n","\n","S","u","g","g","e","s","t","e","d"," ","f","o","l","l","o","w","-","u","p","s",":","\n" >>

\* f"{text_output.strip()}\n\n... Suggested follow-ups:\n{suggestions.strip()}"
AppendSuggestions(text, suggestions) ==
  Prose(Strip(text.chars) \o FollowUpHeading \o Strip(suggestions.chars))

Turn(role, content) == [ role |-> role, content |-> content ]

\* the result of a generate call that raised while the prompt was built
Raised(st, mem, known_rating, exc) ==
  [ st |-> [ st EXCEPT !.memory = mem ], outcome |-> "raise", exc |-> exc,
    text |-> Prose(<< >>), raw |-> Prose(<< >>), prompt |-> NoPrompt,
    chat_prompt |-> NoPrompt, known |-> known_rating, admitted |-> FALSE,
    calls |-> 0, loads |-> 1, saves |-> 0 ]

\* the end of generate for the modes other than chat: the overview text gets
\* its rating line (lines 85-87) and the result is returned (lines 104-117).
\* file1, mem1 and rated1 are the store after the admission step, known1 is
\* known_rating after it.
GenerateReturn(st, mode, file1, mem1, rated1, known0, known1, prompt, out1, admit) ==
  [ st |-> [ cache_file   |-> file1,
             memory       |-> mem1,
             chat_history |-> st.chat_history,
             rated        |-> rated1 ],
    outcome |-> "return", exc |-> "",
    text |-> IF known1 # None /\ mode = "overview"
               THEN AppendRating(out1, known1) ELSE out1,
    raw |-> out1, prompt |-> prompt, chat_prompt |-> NoPrompt,
    known |-> known0, admitted |-> admit,
    calls |-> 1, loads |-> 1, saves |-> IF admit THEN 1 ELSE 0 ]

\* lines 79-81: the parsed record replaces the entry of the key, the cache is
\* saved, and known_rating becomes the float
AdmitRating(st, mode, name_key, mem0, known0, prompt, out1, rating) ==
  GenerateReturn(st, mode, save_cache(st.cache_file, Put(mem0, name_key, out1.doc)),
                 Put(mem0, name_key, out1.doc), Put(st.rated, name_key, rating),
                 known0, JNum(rating), prompt, out1, TRUE)

\* an admission step that does not look at the mode
GenerateAnsweredAnyMode(st, ingredient_name, mode, mem0, known0, prompt, out1) ==
  IF Admits(out1)
    THEN AdmitRating(st, mode, NameKey(ingredient_name), mem0, known0, prompt, out1,
                     Float(out1.doc.health_safety_rating).v)
    ELSE GenerateReturn(st, mode, st.cache_file, mem0, st.rated, known0, known0,
                        prompt, out1, FALSE)

\* generate from line 74 on: out1 is what summarize returned for the prompt
GenerateAnswered(st, ingredient_name, mode, mem0, known0, prompt, out1) ==
  IF mode = "schema" /\ Admits(out1)
    THEN AdmitRating(st, mode, NameKey(ingredient_name), mem0, known0, prompt, out1,
                     Float(out1.doc.health_safety_rating).v)
    ELSE GenerateReturn(st, mode, st.cache_file, mem0, st.rated, known0, known0,
                        prompt, out1, FALSE)

\* the chat branch of generate (lines 90-102) on the result g of the lines
\* before it: hist1 is the log with the user turn, out2 and out3 are what
\* summarize returned for the chat prompt and for the suggestion prompt
GenerateChat(g, hist1, language, out2, out3) ==
  [ g EXCEPT !.st.chat_history = Append(hist1, Turn("assistant", out2)),
             !.text = AppendSuggestions(out2, out3),
             !.chat_prompt = build_chat_prompt(hist1, language),
             !.calls = 3 ]

\* generate once the prompt is built
GeneratePrompted(st, ingredient_name, mode, language, api, mem0, known0, prompt) ==
  IF mode = "chat"
    THEN GenerateChat(
           GenerateAnswered(st, ingredient_name, mode, mem0, known0, prompt,
                            summarize(api[1])),
           Append(st.chat_history, Turn("user", Prose(ingredient_name))),
           language, summarize(api[2]), summarize(api[3]))
    ELSE GenerateAnswered(st, ingredient_name, mode, mem0, known0, prompt,
                          summarize(api[1]))

\* generate once the cache is reloaded and known_rating looked up
GenerateLoaded(st, ingredient_name, mode, language, api, mem0, known0) ==
  LET built == build_generation_prompt(st.chat_history, ingredient_name, mode,
                                       language, known0)
  IN  IF built.raised THEN Raised(st, mem0, known0, built.exc)
      ELSE GeneratePrompted(st, ingredient_name, mode, language, api, mem0, known0,
                            built.prompt)

\* generate, on the engine state st = [cache_file, memory, chat_history,
\* rated]; api[1], api[2], api[3] are the outcomes of the completion calls it
\* makes, in order (chat mode makes three, the other modes one)
generate(st, ingredient_name, mode, language, api) ==
  IF LookupRaises(load_cache(st.cache_file), NameKey(ingredient_name))
    THEN Raised(st, load_cache(st.cache_file), None, "AttributeError")
    ELSE GenerateLoaded(st, ingredient_name, mode, language, api,
                        load_cache(st.cache_file),
                        KnownRating(load_cache(st.cache_file), NameKey(ingredient_name)))

\* ------------------------------------------------------------------------
\* Batch analyzer: analyze_ingredient_list
\* ------------------------------------------------------------------------

NoIngredientsMessage == << "N","o"," ","i","n","g","r","e","d","i","e","n","t"," ","l","i","s","t"," ","f","o","u","n","d","." >>

\* str(e) for the exceptions the unit boundary catches
FormatErrorMessage == << "U","n","k","n","o","w","n"," ","f","o","r","m","a","t"," ","c","o","d","e" >>

JsonErrorMessage == << "E","x","p","e","c","t","i","n","g"," ","v","a","l","u","e" >>

\* {"error": "No ingredient list found."}
ErrorResult ==
  [ fields |-> { "error" }, error |-> NoIngredientsMessage,
    ingredients |-> << >>, blurbs |-> << >>, schemas |-> << >> ]

\* a loop whose except branch records nothing for the failed ingredient
UnitDoneDropsFailed(acc, ing, b, s) ==
  IF b.outcome = "raise"
    THEN [ acc EXCEPT !.st = b.st, !.calls = @ + b.calls, !.loads = @ + b.loads ]
  ELSE IF s.outcome = "raise" \/ s.text.doc.t = "invalid"
    THEN [ acc EXCEPT !.st = s.st, !.calls = @ + b.calls + s.calls,
                      !.loads = @ + b.loads + s.loads ]
  ELSE [ st      |-> s.st,
         blurbs  |-> Put(acc.blurbs, ing, b.text),
         schemas |-> Put(acc.schemas, ing, s.text.doc),
         calls   |-> acc.calls + b.calls + s.calls,
         loads   |-> acc.loads + b.loads + s.loads,
         saves   |-> acc.saves + b.saves + s.saves ]

\* the end of one pass of the for loop: b and s are the two generate calls of
\* ingredient ing (s is not made when b raised); the except branch is taken
\* when either raised or json.loads rejects the schema text.
\* acc = [st, blurbs, schemas, calls, loads, saves]
UnitDone(acc, ing, b, s) ==
  LET bRaise == b.outcome = "raise"
      sRaise == ~bRaise /\ s.outcome = "raise"
      jRaise == ~bRaise /\ ~sRaise /\ s.text.doc.t = "invalid"
      failed == bRaise \/ sRaise \/ jRaise
  IN  [ st      |-> IF bRaise THEN b.st ELSE s.st,
        blurbs  |-> Put(acc.blurbs, ing,
                        IF jRaise THEN ErrorText(JsonErrorMessage)
                        ELSE IF failed THEN ErrorText(FormatErrorMessage)
                        ELSE b.text),
        schemas |-> Put(acc.schemas, ing, IF failed THEN EmptyObject ELSE s.text.doc),
        calls   |-> acc.calls + b.calls + (IF bRaise THEN 0 ELSE s.calls),
        loads   |-> acc.loads + b.loads + (IF bRaise THEN 0 ELSE s.loads),
        saves   |-> acc.saves + b.saves + (IF bRaise THEN 0 ELSE s.saves) ]

NoApis == << ApiFailure, ApiFailure >>

\* the schema call of a unit, after its blurb call b
UnitSchema(acc, ing, language, apis, b) ==
  UnitDone(acc, ing, b,
           generate(b.st, ing, "schema", language, << apis[2] >> \o NoApis))

\* one pass of the for loop
AnalyzeUnit(acc, ing, language, apis) ==
  UnitSchema(acc, ing, language, apis,
             generate(acc.st, ing, "blurb", language, << apis[1] >> \o NoApis))

\* the for loop over ingredients[i..]
RECURSIVE AnalyzeFrom(_, _, _, _, _)
AnalyzeFrom(acc, ingredients, i, language, apis) ==
  IF i > Len(ingredients) THEN acc
  ELSE AnalyzeFrom(AnalyzeUnit(acc, ingredients[i], language, apis[i]),
                   ingredients, i + 1, language, apis)

\* a batch that never stops at the empty list
NothingFoundNever(ingredients) == Len(ingredients) < 0

\* whether the batch stops at "if not ingredients"
NothingFound(ingredients) == ingredients = << >>

\* a result that lists the names whose unit failed after the others
BatchResultFailedLast(ingredients, end) ==
  LET failed(name) == end.schemas[name] = EmptyObject
      succeeded(name) == ~failed(name)
  IN  [ st |-> end.st,
        result |-> [ fields |-> { "ingredients", "blurbs", "schemas" },
                     error |-> << >>,
                     ingredients |-> SelectSeq(ingredients, succeeded)
                                       \o SelectSeq(ingredients, failed),
                     blurbs |-> end.blurbs, schemas |-> end.schemas ],
        calls |-> end.calls, loads |-> end.loads, saves |-> end.saves ]

\* the dictionary analyze_ingredient_list returns after the loop
BatchResult(ingredients, end) ==
  [ st |-> end.st,
    result |-> [ fields |-> { "ingredients", "blurbs", "schemas" },
                 error |-> << >>, ingredients |-> ingredients,
                 blurbs |-> end.blurbs, schemas |-> end.schemas ],
    calls |-> end.calls, loads |-> end.loads, saves |-> end.saves ]

\* analyze_ingredient_list once the ingredients are extracted
AnalyzeExtracted(st, ingredients, language, apis) ==
  IF NothingFound(ingredients)
    THEN [ st |-> st, result |-> ErrorResult, calls |-> 0, loads |-> 0, saves |-> 0 ]
    ELSE BatchResult(ingredients,
           AnalyzeFrom([ st |-> st, blurbs |-> << >>, schemas |-> << >>,
                         calls |-> 0, loads |-> 0, saves |-> 0 ],
                       ingredients, 1, language, apis))

\* analyze_ingredient_list: [st, result, calls, loads, saves]; apis[i] holds
\* the outcomes of the two completion calls of the i-th ingredient
analyze_ingredient_list(st, raw_text, language, apis) ==
  AnalyzeExtracted(st, extract_ingredients_from_text(raw_text), language, apis)

\* ------------------------------------------------------------------------
\* Inputs of the model
\* ------------------------------------------------------------------------

\* ingredient names passed to generate: two spellings of one key, and another
Names == { << "S","a","l","t" >>, << "s","a","l","t"," " >>, << "W","a","t","e","r" >> }

Modes == ValidModes \cup { "list" }

\* the user messages passed to generate in chat mode
ChatMessages == { << "S","a","l","t" >> }

\* what generate is called on in each mode
InputsOf(mode) == IF mode = "chat" THEN ChatMessages ELSE Names

Languages == { "en" }

\* what the model lets the completion API answer in the text modes
ProseApis == { ApiReturns(Prose(<< " ","O","k","\n" >>)), ApiFailure }

Tag(c) == JStr(<< c >>)

GoodDoc == ObjectDoc(JNum(900), JBool(TRUE), Tag("a"))

RoundedDoc == ObjectDoc(JNum(996), JBool(FALSE), Tag("b"))

ZeroDoc == ObjectDoc(JNum(0), JAbsent, Tag("c"))

OneDoc == ObjectDoc(JNum(1000), JStr(<< "t","r","u","e" >>), Tag("d"))

StringDoc == ObjectDoc(JStr(<< "0",".","9" >>), JBool(TRUE), Tag("e"))

HighDoc == ObjectDoc(JNum(1500), JBool(TRUE), Tag("f"))

NegativeDoc == ObjectDoc(JNum(0 - 100), JBool(TRUE), Tag("g"))

WordDoc == ObjectDoc(JStr(<< "h","i","g","h" >>), JBool(TRUE), Tag("h"))

NoRatingDoc == ObjectDoc(JAbsent, JBool(TRUE), Tag("i"))

NullRatingDoc == ObjectDoc(JNull, JBool(TRUE), Tag("j"))

JsonDocs ==
  { GoodDoc, RoundedDoc, ZeroDoc, OneDoc, StringDoc, HighDoc, NegativeDoc,
    WordDoc, NoRatingDoc, NullRatingDoc, ArrayDoc }

\* what the model lets the completion API answer in schema mode
SchemaApis == { ApiReturns(JsonText(d)) : d \in JsonDocs } \cup ProseApis

\* a blurb call may be answered with a record the schema mode would admit
BlurbApis == ProseApis \cup { ApiReturns(JsonText(GoodDoc)) }

\* the outcomes of the completion calls of one generate call
ApiChoices(mode) ==
  IF mode = "chat" THEN ProseApis \X ProseApis \X ProseApis
  ELSE IF mode = "schema" THEN SchemaApis \X { ApiFailure } \X { ApiFailure }
  ELSE IF mode = "blurb" THEN BlurbApis \X { ApiFailure } \X { ApiFailure }
  ELSE ProseApis \X { ApiFailure } \X { ApiFailure }

\* chat calls the model lets one session make
MaxChatCalls == 1

\* label texts handed to analyze_ingredient_list: no list, one name, two names
BatchTexts == { << "W","a","t","e","r" >>, << "I","n","g","r","e","d","i","e","n","t","s",":"," ","S","a","l","t" >>, << "S","a","l","t",","," ","W","a","t","e","r",","," ","s","a","l","t","." >> }

BatchSchemaApis ==
  { ApiReturns(JsonText(GoodDoc)), ApiReturns(JsonText(StringDoc)),
    ApiReturns(JsonText(HighDoc)), ApiReturns(JsonText(ArrayDoc)) } \cup ProseApis

\* the pieces extractor inputs are put together from
ExtractTokens ==
  { << "I","n","g","r","e","d","i","e","n","t","s",":"," " >>,
    << "W","a","t","e","r",","," " >>,
    << "W","A","T","E","R",","," " >>,
    << "S","a","l","t","."," " >>,
    << "C","o","n","t","a","i","n","s",":"," ","M","i","l","k","."," " >>,
    << "a","n","d",","," " >>,
    << "1","2",","," " >>,
    << "(","a",","," ","b",")",","," " >>,
    << " " >>,
    << "\t","\n" >>,
    << "x" >> }

\* pieces per extractor input
MaxTokens == 3

\* label texts beyond the reach of MaxTokens pieces
SampleTexts ==
  { << "I","n","g","r","e","d","i","e","n","t","s",":"," ","W","a","t","e","r",","," ","G","l","y","c","e","r","i","n",","," ","S","o","d","i","u","m"," ","C","h","l","o","r","i","d","e","."," ","C","o","n","t","a","i","n","s",":"," ","M","i","l","k","." >>,
    << "W","a","t","e","r"," ","G","l","y","c","e","r","i","n",".","S","o","d","i","u","m","C","h","l","o","r","i","d","e" >>,
    << "S","a","l","t",","," ","S","t","o","r","a","g","e",","," ","W","a","t","e","r" >>,
    << "w"," ","w"," ","w"," ","w"," ","w"," ","w"," ","w"," ","w"," ","w"," ","w"," ","w"," ","w"," ","w"," ","w"," ","w"," ","w"," ","w"," ","w"," ","w"," ","w"," ","w"," ","w"," ","w"," ","w"," ","w"," ","w"," ","w"," ","w"," ","w"," ","w"," ","w"," ","w"," ","w"," ","w"," ","w"," ","w"," ","w"," ","w"," ","w"," ","w"," ","w"," ","w"," ","w"," ","w"," ","w"," ","w"," ","w"," ","w"," ","w"," ","w"," ","w"," ","w"," ","w"," ","w"," ","w"," ","w"," ","w"," ","w"," ","w"," ","w"," ","w"," ","w"," ","w"," ","w"," ","w"," ","w"," ","w"," ","w"," ","w"," ","w"," ","w"," ","w"," ","w"," ","w"," ","w"," ","w"," ","w"," ","w"," ","w"," ","w"," ","W","a","t","e","r",","," ","S","a","l","t",","," ","S","u","g","a","r","." >> }

ExtractInputs ==
  SampleTexts \cup
  UNION { { Concat(ts) : ts \in [ 1..k -> ExtractTokens ] } : k \in 0..MaxTokens }

\* ------------------------------------------------------------------------
\* Initial state and actions
\* ------------------------------------------------------------------------

NoCall ==
  [ op |-> "none", ingredient |-> << >>, mode |-> "", language |-> "",
    outcome |-> "", exc |-> "", text |-> Prose(<< >>), raw |-> Prose(<< >>),
    prompt |-> NoPrompt, chat_prompt |-> NoPrompt, known |-> None,
    admitted |-> FALSE, calls |-> 0, loads |-> 0, saves |-> 0,
    rated_before |-> 0 - 1 ]

NoBatch ==
  [ op |-> "none", raw_text |-> << >>, result |-> ErrorResult,
    calls |-> 0, loads |-> 0, saves |-> 0 ]

IdleExtractor ==
  [ phase |-> "idle", raw_text |-> << >>, names |-> << >>, rejoined |-> << >>,
    again |-> << >> ]

\* the engine state the operators work on
EngineState ==
  [ cache_file |-> cache_file, memory |-> memory, chat_history |-> chat_history,
    rated |-> rated ]

\* __init__ with no cache file on disk
InitEngine ==
  /\ cache_file = [ kind |-> "missing", data |-> EmptyStore, writable |-> TRUE ]
  /\ memory = load_cache(cache_file)
  /\ chat_history = << >>
  /\ rated = << >>
  /\ last = NoCall
  /\ batch = NoBatch

\* nothing in flight
NoShared == [ phase |-> "none" ]

NoPool == [ phase |-> "none" ]

Unshared == sh = NoShared /\ pool = NoPool

Init == InitEngine /\ ex = IdleExtractor /\ Unshared

\* the state after a generate call with result r
GenerateDone(ingredient_name, mode, language, r, before) ==
  /\ cache_file' = r.st.cache_file
  /\ memory' = r.st.memory
  /\ chat_history' = r.st.chat_history
  /\ rated' = r.st.rated
  /\ last' = [ op |-> "generate", ingredient |-> ingredient_name,
               mode |-> mode, language |-> language,
               outcome |-> r.outcome, exc |-> r.exc, text |-> r.text,
               raw |-> r.raw, prompt |-> r.prompt,
               chat_prompt |-> r.chat_prompt, known |-> r.known,
               admitted |-> r.admitted, calls |-> r.calls,
               loads |-> r.loads, saves |-> r.saves,
               rated_before |-> before ]

\* one call of generate
Generate(ingredient_name, mode, language, api) ==
  /\ mode = "chat" => Len(chat_history) < 2 * MaxChatCalls
  /\ GenerateDone(ingredient_name, mode, language,
                  generate(EngineState, ingredient_name, mode, language, api),
                  IF NameKey(ingredient_name) \in DOMAIN rated
                    THEN rated[NameKey(ingredient_name)] ELSE 0 - 1)
  /\ UNCHANGED << batch, ex, sh, pool >>

GenerateCall ==
  \E mode \in Modes, language \in Languages :
    \E ingredient_name \in InputsOf(mode), api \in ApiChoices(mode) :
      Generate(ingredient_name, mode, language, api)

\* the state after an analyze_ingredient_list call with result r
AnalyzeDone(raw_text, r) ==
  /\ cache_file' = r.st.cache_file
  /\ memory' = r.st.memory
  /\ chat_history' = r.st.chat_history
  /\ rated' = r.st.rated
  /\ batch' = [ op |-> "analyze", raw_text |-> raw_text, result |-> r.result,
                calls |-> r.calls, loads |-> r.loads, saves |-> r.saves ]

\* one call of analyze_ingredient_list
Analyze(raw_text, language, apis) ==
  /\ AnalyzeDone(raw_text, analyze_ingredient_list(EngineState, raw_text, language, apis))
  /\ UNCHANGED << last, ex, sh, pool >>

BatchNames == [ t \in BatchTexts |-> extract_ingredients_from_text(t) ]

AnalyzeCall ==
  \E raw_text \in BatchTexts, language \in Languages :
    \E apis \in [ 1..Len(BatchNames[raw_text]) -> ProseApis \X BatchSchemaApis ] :
      Analyze(raw_text, language, apis)

\* ",".join(names)
JoinCommas(names) ==
  Concat([ i \in 1..Len(names) |-> IF i = 1 THEN names[i] ELSE << "," >> \o names[i] ])

\* extract_ingredients_from_text on the input
Extract ==
  /\ ex.phase = "input"
  /\ ex' = [ ex EXCEPT !.phase = "extracted",
                       !.names = extract_ingredients_from_text(ex.raw_text) ]
  /\ UNCHANGED << cache_file, memory, chat_history, rated, last, batch, sh, pool >>

\* extract_ingredients_from_text on its own result, rejoined with commas
Reextract ==
  /\ ex.phase = "extracted"
  /\ ex' = [ ex EXCEPT !.phase = "reextracted",
                       !.rejoined = JoinCommas(ex.names),
                       !.again = extract_ingredients_from_text(JoinCommas(ex.names)) ]
  /\ UNCHANGED << cache_file, memory, chat_history, rated, last, batch, sh, pool >>

\* ------------------------------------------------------------------------
\* Specifications
\* ------------------------------------------------------------------------

\* any sequence of generate calls on one engine, from an empty store
Next == GenerateCall

Spec == Init /\ [][Next]_vars

\* any sequence of batch analyses on one engine, from an empty store
NextBatch == AnalyzeCall

SpecBatch == Init /\ [][NextBatch]_vars

\* the extractor applied to each input, then to its own result
InitExtract ==
  /\ InitEngine
  /\ ex \in { [ IdleExtractor EXCEPT !.phase = "input", !.raw_text = t ] :
                t \in ExtractInputs }
  /\ Unshared

NextExtract == Extract \/ Reextract

SpecExtract == InitExtract /\ [][NextExtract]_vars

\* ------------------------------------------------------------------------
\* Properties of generate (specification Spec)
\* ------------------------------------------------------------------------

\* whether t occurs in s
Contains(s, t) ==
  \E i \in 1..(Len(s) - Len(t) + 1) : SubSeq(s, i, i + Len(t) - 1) = t

Range(seq) == { seq[i] : i \in DOMAIN seq }

\* the key of the last generate call
LastKey == NameKey(last.ingredient)

\* C1: once a schema call for a key was admitted with rating r (and no other
\* rating was admitted for the key since), every later overview call for the
\* key returns text that embeds r written with two decimals, and every later
\* schema call for the key is sent a prompt whose hard constraint carries that
\* two-decimal value.
C1_RatingConsistency ==
  (last.op = "generate" /\ last.rated_before >= 0) =>
    /\ last.mode = "overview" =>
         /\ last.outcome = "return"
         /\ Contains(last.text.chars, Fmt2(last.rated_before))
    /\ last.mode = "schema" =>
         /\ last.outcome = "return"
         /\ last.prompt.rating_hint = Fmt2(last.rated_before)

\* a record as the store is meant to hold it: a numeric rating in [0,1] and a
\* boolean edible
ValidRecord(doc) ==
  /\ doc.t = "object"
  /\ doc.health_safety_rating.t = "num"
  /\ InRange(doc.health_safety_rating.n)
  /\ doc.edible.t = "bool"

\* C2: after any sequence of generate calls from an empty store, every record
\* of the store (the file and the copy in memory) has a numeric
\* health_safety_rating in [0,1] and a boolean edible.
C2_StoreInvariant ==
  /\ \A k \in DOMAIN memory : ValidRecord(memory[k])
  /\ \A k \in DOMAIN load_cache(cache_file) : ValidRecord(load_cache(cache_file)[k])

\* the responses C3 is about: no record, a record without a rating, a rating
\* outside [0,1]
NotARecord(text) == text.doc.t # "object"

LacksRating(text) ==
  text.doc.t = "object" /\ text.doc.health_safety_rating.t \in { "absent", "null" }

OutOfRange(text) ==
  /\ text.doc.t = "object"
  /\ Float(text.doc.health_safety_rating).ok
  /\ ~InRange(Float(text.doc.health_safety_rating).v)

Rejectable(text) == NotARecord(text) \/ LacksRating(text) \/ OutOfRange(text)

\* a schema call that returned, on a response of one of these kinds, leaves
\* the file and the map as they were and returns the response as it came
RejectedStep ==
  (last'.op = "generate" /\ last'.mode = "schema" /\ last'.outcome = "return"
     /\ Rejectable(last'.raw)) =>
    /\ cache_file' = cache_file
    /\ memory' = load_cache(cache_file)
    /\ rated' = rated
    /\ last'.text = last'.raw
    /\ ~last'.admitted

\* a call for a key no rating was ever admitted for finds no known rating:
\* no hint in its prompt, no rating line in its overview text
NoRatingStep ==
  (last'.op = "generate" /\ NameKey(last'.ingredient) \notin DOMAIN rated) =>
    /\ last'.known = None
    /\ last'.outcome = "return" => last'.prompt.rating_hint = << >>
    /\ (last'.outcome = "return" /\ last'.mode = "overview") => last'.text = last'.raw

\* C3: a schema call whose response is no record, lacks the rating or has a
\* rating outside [0,1] leaves the store file and the key's entry as they
\* were and returns the raw response; a key that had no rating before still
\* has none known at the next call.
C3_RejectedLeavesStore == [][RejectedStep /\ NoRatingStep]_vars

\* a schema call for a key without a record was answered with the rating 1.5
\* while the store held the record of another key
C3_Witness ==
  /\ last.op = "generate" /\ last.mode = "schema" /\ last.outcome = "return"
  /\ last.raw = JsonText(HighDoc)
  /\ ~last.admitted
  /\ memory # EmptyStore
  /\ LastKey \notin DOMAIN memory

\* C6: every generate call with a valid mode returns, whatever the generator
\* answered in this call and in the calls before it.
C6_GenerateNeverRaises ==
  (last.op = "generate" /\ last.mode \in ValidModes) => last.outcome = "return"

\* ------------------------------------------------------------------------
\* Properties of analyze_ingredient_list (specification SpecBatch)
\* ------------------------------------------------------------------------

\* the names the extractor finds in the text of the last batch
BatchExtracted == BatchNames[batch.raw_text]

\* C4: when the extractor returns N >= 1 names, the result has a blurbs map
\* and a schemas map whose key sets are each exactly those N names, whatever
\* failed inside the units.
C4_BatchCompleteness ==
  (batch.op = "analyze" /\ BatchExtracted # << >>) =>
    /\ batch.result.fields = { "ingredients", "blurbs", "schemas" }
    /\ batch.result.ingredients = BatchExtracted
    /\ DOMAIN batch.result.blurbs = Range(BatchExtracted)
    /\ DOMAIN batch.result.schemas = Range(BatchExtracted)
    /\ Cardinality(DOMAIN batch.result.blurbs) = Len(BatchExtracted)
    /\ Cardinality(DOMAIN batch.result.schemas) = Len(BatchExtracted)

\* a batch of two names in which generate raised for one unit and the
\* generator failed or answered malformed JSON for the other
C4_Witness ==
  /\ batch.op = "analyze"
  /\ Len(batch.result.ingredients) = 2
  /\ \E a, b \in DOMAIN batch.result.blurbs :
       /\ batch.result.blurbs[a] = ErrorText(FormatErrorMessage)
       /\ batch.result.blurbs[b] = ErrorText(JsonErrorMessage)
       /\ batch.result.schemas[a] = EmptyObject
       /\ batch.result.schemas[b] = EmptyObject

\* C5: when the extractor returns nothing, the result is exactly
\* {error: "No ingredient list found."}, no generator call is made and the
\* store is neither read nor written.
C5_EmptyExtraction ==
  (batch.op = "analyze" /\ BatchExtracted = << >>) =>
    /\ batch.result = ErrorResult
    /\ batch.result.fields = { "error" }
    /\ batch.result.error = NoIngredientsMessage
    /\ batch.calls = 0
    /\ batch.loads = 0
    /\ batch.saves = 0

\* a batch on a text without a list, on an engine whose store holds records
C5_Witness ==
  /\ batch.op = "analyze"
  /\ BatchExtracted = << >>
  /\ batch.result.fields = { "error" }
  /\ memory # EmptyStore

\* ------------------------------------------------------------------------
\* Properties of extract_ingredients_from_text (specification SpecExtract)
\* ------------------------------------------------------------------------

Extracted == ex.phase \in { "extracted", "reextracted" }

\* the list "cleaned" the extractor builds for the input (empty when it
\* returns before building it)
ExCleaned ==
  IF IsBlank(ex.raw_text) \/ CandidateSection(NormalizeNoise(ex.raw_text)) = << >>
    THEN << >>
    ELSE CleanedOf(CandidateSection(NormalizeNoise(ex.raw_text)))

\* the positions of "cleaned" that hold the first occurrence of their
\* lower-cased item
FirstOccurrences(cleaned) ==
  { i \in 1..Len(cleaned) :
      \A k \in 1..(i - 1) : Lower(cleaned[k]) # Lower(cleaned[i]) }

\* names is cleaned at its first occurrences, in their order
FirstSeenOrder(names, cleaned) ==
  /\ Len(names) = Cardinality(FirstOccurrences(cleaned))
  /\ \A n \in 1..Len(names) :
       \E i \in FirstOccurrences(cleaned) :
         /\ names[n] = cleaned[i]
         /\ Cardinality({ k \in FirstOccurrences(cleaned) : k < i }) = n - 1

\* C7: the result holds no two names that are equal when lower-cased, and its
\* names are the first occurrences of the cleaned items, in their order.
C7_NoDuplicatesFirstSeen ==
  Extracted =>
    /\ \A i, j \in 1..Len(ex.names) :
         Lower(ex.names[i]) = Lower(ex.names[j]) => i = j
    /\ FirstSeenOrder(ex.names, ExCleaned)

\* an input whose cleaned items repeat a name, apart, after another name
C7_Witness ==
  /\ Extracted
  /\ Len(ex.names) >= 2
  /\ \E i, j \in 1..Len(ExCleaned) :
       /\ i + 1 < j
       /\ Lower(ExCleaned[i]) = Lower(ExCleaned[j])
       /\ Lower(ExCleaned[i + 1]) # Lower(ExCleaned[i])

\* C8: on the empty string and on a whitespace-only string the extractor
\* returns the empty sequence.
C8_BlankGivesNothing ==
  (Extracted /\ \A i \in 1..Len(ex.raw_text) : ex.raw_text[i] \in Whitespace) =>
    ex.names = << >>

\* a whitespace-only input of several characters was extracted
C8_Witness ==
  /\ ex.phase = "extracted"
  /\ Len(ex.raw_text) >= 2
  /\ \A i \in 1..Len(ex.raw_text) : ex.raw_text[i] \in Whitespace
  /\ ex.names = << >>

\* C9: the extractor applied to its own result, rejoined with commas, returns
\* the same set of names.
C9_Idempotent ==
  ex.phase = "reextracted" => Range(ex.again) = Range(ex.names)

\* the example of C10 and its expected result
HeaderExample ==
  << "I","n","g","r","e","d","i","e","n","t","s",":"," ","W","a","t","e","r",","," ","G","l","y","c","e","r","i","n",","," ","S","o","d","i","u","m"," ","C","h","l","o","r","i","d","e","."," ","C","o","n","t","a","i","n","s",":"," ","M","i","l","k","." >>

HeaderExampleNames ==
  << << "W","a","t","e","r" >>, << "G","l","y","c","e","r","i","n" >>,
     << "S","o","d","i","u","m"," ","C","h","l","o","r","i","d","e" >> >>

\* the text the header captures in the input (empty when there is no header)
ExCaptured ==
  LET text == NormalizeNoise(ex.raw_text)
  IN  IF HeaderStart(text) = 0 THEN << >>
      ELSE SubSeq(text, HeaderEndAt(text, HeaderStart(text)), Len(text))

ExHeaderFound == HeaderStart(NormalizeNoise(ex.raw_text)) # 0

\* the example yields exactly its three names
HeaderExampleHolds ==
  (Extracted /\ ex.raw_text = HeaderExample) => ex.names = HeaderExampleNames

\* C10: the example text yields exactly Water, Glycerin, Sodium Chloride; and
\* when the header is found, every name of the result comes from the captured
\* section before its first boilerplate marker.
C10_HeaderCutOff ==
  /\ HeaderExampleHolds
  /\ (Extracted /\ ExHeaderFound /\ MarkerStart(ExCaptured) # 0) =>
       Range(ex.names) \subseteq Range(CleanedOf(CutAtMarker(ExCaptured)))

\* the headerless example of C11
GluedExample ==
  << "W","a","t","e","r"," ","G","l","y","c","e","r","i","n",".","S","o","d","i","u","m","C","h","l","o","r","i","d","e" >>

\* C11: for the headerless text "Water Glycerin.SodiumChloride" the extractor
\* returns a non-empty result that holds a non-empty, title-cased name.
C11_GluedTokens ==
  (Extracted /\ ex.raw_text = GluedExample) =>
    /\ ex.names # << >>
    /\ \E i \in 1..Len(ex.names) :
         ex.names[i] # << >> /\ ex.names[i] = Title(ex.names[i])

\* ------------------------------------------------------------------------
\* generate calls in flight on one store file
\* ------------------------------------------------------------------------

\* the callers of generate that run at the same time
Workers == { 1, 2 }

Other(w) == CHOOSE v \in Workers : v # w

\* calls the model lets one caller make
MaxSharedCalls == 2

\* len of the text json.dump writes for a number of n thousandths, 0 < n < 1000
NumberLen(n) == IF n % 100 = 0 THEN 3 ELSE IF n % 10 = 0 THEN 4 ELSE 5

\* len of the text json.dump writes for a value
ValueLen(x) ==
  CASE x.t = "num"  -> NumberLen(x.n)
    [] x.t = "bool" -> IF x.n = 1 THEN 4 ELSE 5
    [] x.t = "str"  -> Len(x.s) + 2
    [] OTHER        -> 4

\* one field of a record as indent=2 writes it, with the ",\n" after it:
\* nothing for a field the record lacks
FieldLen(name_len, x) ==
  IF x.t = "absent" THEN 0 ELSE 4 + (name_len + 2) + 2 + ValueLen(x) + 2

\* len of the text json.dump writes for a record
RecordLen(doc) ==
  LET body == FieldLen(20, doc.health_safety_rating) + FieldLen(6, doc.edible)
                + FieldLen(11, doc.common_uses)
  IN  IF body = 0 THEN 2 ELSE 2 + (body - 2) + 4

RECURSIVE EntriesLen(_, _)
EntriesLen(mem, keys) ==
  IF keys = {} THEN 0
  ELSE LET k == CHOOSE x \in keys : TRUE
       IN  2 + (Len(k) + 2) + 2 + RecordLen(mem[k]) + 2 + EntriesLen(mem, keys \ { k })

\* len(json.dumps(self._memory, indent=2))
DumpLen(mem) == IF DOMAIN mem = {} THEN 2 ELSE EntriesLen(mem, DOMAIN mem) + 2

\* The store file as the callers share it: kind is "missing", "snapshot" (the
\* text of one whole dump, data) or "torn" (text json.load rejects: empty, or
\* a dump followed by the rest of a longer one); len is its length.
MissingFile == [ kind |-> "missing", data |-> EmptyStore, len |-> 0 ]

\* open(self.cache_file, "w"): the file is cut to length 0
OpenForWrite(file) == [ kind |-> "torn", data |-> EmptyStore, len |-> 0 ]

\* json.dump and the close of the with block: the text of mem is written
\* from offset 0 of this writer's handle, over what the file holds by then
Flush(file, mem) ==
  IF DumpLen(mem) >= file.len
    THEN [ kind |-> "snapshot", data |-> mem, len |-> DumpLen(mem) ]
    ELSE [ kind |-> "torn", data |-> EmptyStore, len |-> file.len ]

\* _load_cache on the shared file
ReadFile(file) == load_cache([ kind |-> file.kind, data |-> file.data ])

IdleWorker ==
  [ pc |-> "idle", name |-> << >>, mode |-> "", known |-> None,
    out |-> Prose(<< >>), seen |-> "none", overlapped |-> FALSE,
    admitted |-> FALSE, outcome |-> "", calls |-> 0, promised |-> FALSE ]

\* two callers on one engine object (threads) or on an engine each
\* (processes), on a store file that does not exist yet
SharedStart(one_engine) ==
  [ phase |-> "shared", one_engine |-> one_engine, file |-> MissingFile,
    mem |-> [ e \in Workers |-> ReadFile(MissingFile) ],
    w |-> [ v \in Workers |-> IdleWorker ],
    persisted |-> {}, last_saver |-> 0 ]

\* the engine whose generate caller w runs
EngineOf(w) == IF sh.one_engine THEN 1 ELSE w

Running(w) == sh.w[w].pc # "idle"

SharedNames == { << "S","a","l","t" >>, << "W","a","t","e","r" >> }

SharedModes == { "overview", "schema" }

SharedApis(mode) ==
  IF mode = "schema"
    THEN { ApiReturns(JsonText(GoodDoc)), ApiReturns(JsonText(RoundedDoc)),
           ApiReturns(JsonText(HighDoc)) }
    ELSE { ApiReturns(Prose(<< "O","k" >>)) }

SharedUnchanged ==
  UNCHANGED << cache_file, memory, chat_history, rated, last, batch, ex, pool >>

\* caller w enters generate (line 53); promised tells whether a save that
\* held the key had completed by then
Begin(w, ingredient_name, mode) ==
  /\ sh.w[w].pc = "idle"
  /\ sh.w[w].calls < MaxSharedCalls
  /\ sh' = [ sh EXCEPT
               !.w[w] = [ @ EXCEPT !.pc = "load", !.name = ingredient_name,
                                   !.mode = mode, !.known = None,
                                   !.out = Prose(<< >>), !.seen = "none",
                                   !.admitted = FALSE, !.outcome = "",
                                   !.promised =
                                     NameKey(ingredient_name) \in sh.persisted,
                                   !.overlapped = Running(Other(w)) ],
               !.w[Other(w)].overlapped = @ \/ Running(Other(w)) ]
  /\ SharedUnchanged

\* line 56: self._memory = self._load_cache()
LoadStep(w) ==
  /\ sh.w[w].pc = "load"
  /\ sh' = [ sh EXCEPT !.mem[EngineOf(w)] = ReadFile(sh.file),
                       !.w[w].seen = sh.file.kind,
                       !.w[w].pc = "lookup" ]
  /\ SharedUnchanged

\* caller w leaves generate: what stays of the call is its outcome and, when
\* its response was admitted, the name and the response
Leave(worker, outcome) ==
  IF worker.admitted
    THEN [ worker EXCEPT !.pc = "idle", !.outcome = outcome, !.calls = @ + 1,
                         !.known = None, !.seen = "none", !.promised = FALSE ]
    ELSE [ IdleWorker EXCEPT !.outcome = outcome, !.calls = worker.calls + 1,
                             !.overlapped = worker.overlapped ]

\* lines 58-67: the lookup of known_rating and the prompt
LookupStep(w) ==
  /\ sh.w[w].pc = "lookup"
  /\ LET known == KnownRating(sh.mem[EngineOf(w)], NameKey(sh.w[w].name))
     IN  sh' = [ sh EXCEPT
                   !.w[w] = IF HintRaises(known)
                              THEN Leave([ @ EXCEPT !.known = known ], "raise")
                              ELSE [ @ EXCEPT !.known = known, !.pc = "call" ] ]
  /\ SharedUnchanged

\* lines 70-78: the generator answers; an admitted schema response goes on to
\* the store, anything else is returned
CallStep(w, api) ==
  /\ sh.w[w].pc = "call"
  /\ sh' = [ sh EXCEPT
               !.w[w] = IF sh.w[w].mode = "schema" /\ Admits(summarize(api))
                          THEN [ @ EXCEPT !.out = summarize(api), !.pc = "put" ]
                          ELSE Leave([ @ EXCEPT !.out = summarize(api) ], "return") ]
  /\ SharedUnchanged

\* line 79: self._memory[name_key] = parsed
PutStep(w) ==
  /\ sh.w[w].pc = "put"
  /\ sh' = [ sh EXCEPT
               !.mem[EngineOf(w)] = Put(@, NameKey(sh.w[w].name), sh.w[w].out.doc),
               !.w[w].pc = "open" ]
  /\ SharedUnchanged

\* line 43: open(self.cache_file, "w")
OpenStep(w) ==
  /\ sh.w[w].pc = "open"
  /\ sh' = [ sh EXCEPT !.file = OpenForWrite(@), !.w[w].pc = "dump" ]
  /\ SharedUnchanged

\* the keys of the snapshot a flush leaves, if it leaves one
Persisted(file) == IF file.kind = "snapshot" THEN DOMAIN file.data ELSE {}

\* line 44 and the end of the with block, then the return of generate
DumpStep(w) ==
  /\ sh.w[w].pc = "dump"
  /\ sh' = [ sh EXCEPT
               !.file = Flush(@, sh.mem[EngineOf(w)]),
               !.persisted = @ \cup Persisted(Flush(sh.file, sh.mem[EngineOf(w)])),
               !.last_saver = w,
               !.w[w] = Leave([ @ EXCEPT !.admitted = TRUE ], "return") ]
  /\ SharedUnchanged

SharedCall ==
  \E w \in Workers, ingredient_name \in SharedNames, mode \in SharedModes :
    Begin(w, ingredient_name, mode)

SharedStep ==
  \E w \in Workers :
    \/ LoadStep(w)
    \/ LookupStep(w)
    \/ \E api \in SharedApis(sh.w[w].mode) : CallStep(w, api)
    \/ PutStep(w)
    \/ OpenStep(w)
    \/ DumpStep(w)

InitShared ==
  /\ InitEngine
  /\ ex = IdleExtractor
  /\ pool = NoPool
  /\ sh \in { SharedStart(one_engine) : one_engine \in BOOLEAN }

NextShared == SharedCall \/ SharedStep

\* generate calls of two callers, interleaved step by step, on one store file
SpecShared == InitShared /\ [][NextShared]_vars

\* ------------------------------------------------------------------------
\* analyze_ingredient_list, one step of its loop at a time
\* ------------------------------------------------------------------------

PoolUnchanged == UNCHANGED << last, batch, ex, sh >>

\* the engine variables after a generate call with result r
EngineBecomes(r) ==
  /\ cache_file' = r.st.cache_file
  /\ memory' = r.st.memory
  /\ chat_history' = r.st.chat_history
  /\ rated' = r.st.rated

EngineUnchanged == UNCHANGED << cache_file, memory, chat_history, rated >>

\* lines 305-310: the extraction, the early return, the two empty maps.
\* st0 is the engine as the call found it; apis[i] and failed keep, for the
\* units done, the generator's answers and whether the except branch ran.
PoolStarted(raw_text, language, ingredients, st0) ==
  [ phase |-> IF NothingFound(ingredients) THEN "returned" ELSE "running",
    raw_text |-> raw_text, language |-> language, ingredients |-> ingredients,
    st0 |-> st0, i |-> 0, stage |-> "idle", in_flight |-> {},
    blurb |-> Prose(<< >>), schema |-> Prose(<< >>), message |-> << >>,
    used |-> NoApis, blurbs |-> << >>, schemas |-> << >>,
    apis |-> << >>, failed |-> {},
    result |-> ErrorResult ]

PoolCall ==
  /\ pool.phase \in { "none", "returned" }
  /\ \E raw_text \in BatchTexts, language \in Languages :
       pool' = PoolStarted(raw_text, language,
                           extract_ingredients_from_text(raw_text), EngineState)
  /\ EngineUnchanged
  /\ PoolUnchanged

\* line 312: the for loop takes the next ingredient when the body is done
UnitStart ==
  /\ pool.phase = "running"
  /\ pool.in_flight = {}
  /\ pool.i < Len(pool.ingredients)
  /\ pool' = [ pool EXCEPT !.i = @ + 1, !.in_flight = { pool.i + 1 },
                           !.stage = "blurb", !.used = NoApis ]
  /\ EngineUnchanged
  /\ PoolUnchanged

\* the pool record after the blurb call r of the unit (line 314)
AfterBlurb(p, api, r) ==
  IF r.outcome = "raise"
    THEN [ p EXCEPT !.stage = "except", !.message = FormatErrorMessage,
                    !.used = << api, ApiFailure >> ]
    ELSE [ p EXCEPT !.stage = "schema", !.blurb = r.text,
                    !.used = << api, ApiFailure >> ]

UnitBlurbDone(api, r) ==
  /\ pool' = AfterBlurb(pool, api, r)
  /\ EngineBecomes(r)
  /\ PoolUnchanged

UnitBlurb ==
  /\ pool.phase = "running"
  /\ pool.stage = "blurb"
  /\ \E api \in ProseApis :
       UnitBlurbDone(api, generate(EngineState, pool.ingredients[pool.i], "blurb",
                                   pool.language, << api >> \o NoApis))

\* the pool record after the schema call r of the unit (line 315) and the
\* json.loads of its text (line 317)
AfterSchema(p, api, r) ==
  IF r.outcome = "raise"
    THEN [ p EXCEPT !.stage = "except", !.message = FormatErrorMessage,
                    !.used = << @[1], api >> ]
  ELSE IF r.text.doc.t = "invalid"
    THEN [ p EXCEPT !.stage = "except", !.message = JsonErrorMessage,
                    !.used = << @[1], api >> ]
  ELSE [ p EXCEPT !.stage = "record", !.schema = r.text, !.used = << @[1], api >> ]

UnitSchemaDone(api, r) ==
  /\ pool' = AfterSchema(pool, api, r)
  /\ EngineBecomes(r)
  /\ PoolUnchanged

UnitSchemaCall ==
  /\ pool.phase = "running"
  /\ pool.stage = "schema"
  /\ \E api \in BatchSchemaApis :
       UnitSchemaDone(api, generate(EngineState, pool.ingredients[pool.i], "schema",
                                    pool.language, << api >> \o NoApis))

\* the bookkeeping at the end of a loop body
UnitOver(p) ==
  [ p EXCEPT !.stage = "idle", !.in_flight = {}, !.apis = Append(@, p.used) ]

\* lines 316-317: both results are recorded under the name
UnitRecorded(p) ==
  UnitOver([ p EXCEPT !.blurbs = Put(@, p.ingredients[p.i], p.blurb),
                      !.schemas = Put(@, p.ingredients[p.i], p.schema.doc) ])

\* an except branch that also gives up the names not yet processed
UnitFailedAborts(p) ==
  UnitOver([ p EXCEPT !.blurbs = Put(@, p.ingredients[p.i], ErrorText(p.message)),
                      !.schemas = Put(@, p.ingredients[p.i], EmptyObject),
                      !.failed = @ \cup { p.i },
                      !.i = Len(p.ingredients) ])

\* lines 318-320: the except branch records the error and the empty record
UnitFailed(p) ==
  UnitOver([ p EXCEPT !.blurbs = Put(@, p.ingredients[p.i], ErrorText(p.message)),
                      !.schemas = Put(@, p.ingredients[p.i], EmptyObject),
                      !.failed = @ \cup { p.i } ])

UnitRecord ==
  /\ pool.phase = "running"
  /\ pool.stage = "record"
  /\ pool' = UnitRecorded(pool)
  /\ EngineUnchanged
  /\ PoolUnchanged

UnitExcept ==
  /\ pool.phase = "running"
  /\ pool.stage = "except"
  /\ pool' = UnitFailed(pool)
  /\ EngineUnchanged
  /\ PoolUnchanged

\* lines 322-326: the loop is over and the dictionary is returned
PoolReturn ==
  /\ pool.phase = "running"
  /\ pool.in_flight = {}
  /\ pool.i = Len(pool.ingredients)
  /\ pool' = [ pool EXCEPT
                 !.phase = "returned",
                 !.result = BatchResult(pool.ingredients,
                                        [ st |-> EngineState, blurbs |-> pool.blurbs,
                                          schemas |-> pool.schemas, calls |-> 0,
                                          loads |-> 0, saves |-> 0 ]).result ]
  /\ EngineUnchanged
  /\ PoolUnchanged

InitPool == InitEngine /\ ex = IdleExtractor /\ Unshared

NextPool ==
  \/ PoolCall
  \/ UnitStart
  \/ UnitBlurb
  \/ UnitSchemaCall
  \/ UnitRecord
  \/ UnitExcept
  \/ PoolReturn

\* batch analyses on one engine, one step of the loop at a time
SpecPool == InitPool /\ [][NextPool]_vars

\* ------------------------------------------------------------------------
\* Properties of concurrent generate calls (specification SpecShared)
\* ------------------------------------------------------------------------

Shared == sh.phase = "shared"

\* C12: every load a caller performs, at any point of an interleaving, reads
\* the initial content of the store file or a whole snapshot some save wrote,
\* never a cut or partly written file.
C12_NeverObservedTorn ==
  Shared => \A w \in Workers : sh.w[w].seen \in { "none", "missing", "snapshot" }

\* C13: a key whose record was persisted is in the persisted store after
\* every later step of every interleaving.
C13_NeverDeleted ==
  Shared => \A k \in sh.persisted : k \in DOMAIN ReadFile(sh.file)

\* the last calls of the two callers overlapped in time, were both schema
\* calls for one key, were both admitted, and have both returned
BothAdmittedSameKey ==
  /\ Shared
  /\ \A w \in Workers : sh.w[w].pc = "idle" /\ sh.w[w].admitted /\ sh.w[w].overlapped
  /\ \A v, w \in Workers : NameKey(sh.w[v].name) = NameKey(sh.w[w].name)

\* C18: after two concurrent admitted schema calls for one key have finished,
\* the persisted record of the key is the whole record of the call that saved
\* last.
C18_LastWriterWins ==
  BothAdmittedSameKey =>
    /\ NameKey(sh.w[1].name) \in DOMAIN ReadFile(sh.file)
    /\ ReadFile(sh.file)[NameKey(sh.w[1].name)] = sh.w[sh.last_saver].out.doc

\* ------------------------------------------------------------------------
\* Properties of the batch loop (specification SpecPool)
\* ------------------------------------------------------------------------

PoolRunning == pool.phase = "running"

\* the extracted names whose unit has not been started
UnitsWaiting == { j \in 1..Len(pool.ingredients) : j > pool.i }

\* C14: while a batch runs, at most 6 units are in flight, and the units
\* run concurrently: as long as fewer than 6 units are in flight and a name
\* is still waiting, a further unit can start beside those in flight
C14_BoundedFanOut ==
  PoolRunning =>
    /\ Cardinality(pool.in_flight) <= 6
    /\ (UnitsWaiting # {} /\ Cardinality(pool.in_flight) < 6) => ENABLED UnitStart

PoolReturned == pool.phase = "returned" /\ pool.ingredients # << >>

\* C15: the ingredients of a successful batch result are the extractor's
\* output for the same text, the same names in the same order, whichever
\* units completed and whichever failed
C15_OrderPreserved ==
  PoolReturned =>
    /\ "ingredients" \in pool.result.fields
    /\ pool.result.ingredients = extract_ingredients_from_text(pool.raw_text)

\* a batch of two names whose first unit failed and whose second completed
C15_Witness ==
  /\ PoolReturned
  /\ Len(pool.ingredients) = 2
  /\ pool.failed = { 1 }

\* the unit of the j-th name of the batch, run on its own on the engine as
\* the batch found it, with the generator's answers the batch got for it
UnitAlone(j) ==
  AnalyzeUnit([ st |-> pool.st0, blurbs |-> << >>, schemas |-> << >>,
                calls |-> 0, loads |-> 0, saves |-> 0 ],
              pool.ingredients[j], pool.language, pool.apis[j])

ErrorBlurbs == { ErrorText(FormatErrorMessage), ErrorText(JsonErrorMessage) }

\* what the result holds for the j-th name: the error entries if its unit
\* failed, and otherwise what its unit gives on its own
UnitIsolated(j, name) ==
  /\ name \in DOMAIN pool.result.blurbs
  /\ name \in DOMAIN pool.result.schemas
  /\ IF j \in pool.failed
       THEN /\ pool.result.blurbs[name] \in ErrorBlurbs
            /\ pool.result.schemas[name] = EmptyObject
       ELSE /\ pool.result.blurbs[name] = UnitAlone(j).blurbs[name]
            /\ pool.result.schemas[name] = UnitAlone(j).schemas[name]

\* C19: a batch with failed units still returns a full result; a failed
\* name has an error string and an empty record, and every other name has
\* exactly the blurb and schema its unit gives without the failure
C19_FailureIsolation ==
  PoolReturned =>
    /\ pool.result.fields = { "ingredients", "blurbs", "schemas" }
    /\ \A j \in 1..Len(pool.ingredients) : UnitIsolated(j, pool.ingredients[j])

\* a batch of two names whose second unit failed after the first one had
\* its record admitted and saved
C19_Witness ==
  /\ PoolReturned
  /\ Len(pool.ingredients) = 2
  /\ pool.failed = { 2 }
  /\ pool.result.schemas[pool.ingredients[1]] = GoodDoc
  /\ NameKey(pool.ingredients[1]) \in DOMAIN memory

\* ------------------------------------------------------------------------
\* generate on a store file the engine did not write
\* ------------------------------------------------------------------------

SaltKey == << "s","a","l","t" >>

WaterKey == << "w","a","t","e","r" >>

\* what the store file holds when the engine is constructed: nothing, a file
\* that cannot be opened, text that is no JSON, a snapshot, and JSON objects
\* with a value that is no record
StoreContents ==
  { [ kind |-> "missing", data |-> EmptyStore ],
    [ kind |-> "unreadable", data |-> EmptyStore ],
    [ kind |-> "garbage", data |-> EmptyStore ],
    [ kind |-> "snapshot", data |-> Put(EmptyStore, SaltKey, GoodDoc) ],
    [ kind |-> "snapshot", data |-> Put(EmptyStore, SaltKey, ArrayDoc) ],
    [ kind |-> "snapshot", data |-> Put(Put(EmptyStore, SaltKey, GoodDoc), WaterKey, ArrayDoc) ] }

StoreFiles ==
  { [ kind |-> c.kind, data |-> c.data, writable |-> b ] :
      c \in StoreContents, b \in BOOLEAN }

StoreModes == { "blurb", "overview", "schema" }

StoreApis(mode) ==
  IF mode = "schema"
    THEN { ApiReturns(JsonText(GoodDoc)), ApiReturns(JsonText(HighDoc)), ApiFailure }
           \X { ApiFailure } \X { ApiFailure }
    ELSE ProseApis \X { ApiFailure } \X { ApiFailure }

\* __init__ on one of the store files
InitStore ==
  /\ cache_file \in StoreFiles
  /\ memory = load_cache(cache_file)
  /\ chat_history = << >>
  /\ rated = << >>
  /\ last = NoCall
  /\ batch = NoBatch
  /\ ex = IdleExtractor
  /\ Unshared

StoreCall ==
  \E mode \in StoreModes, language \in Languages :
    \E ingredient_name \in Names, api \in StoreApis(mode) :
      Generate(ingredient_name, mode, language, api)

NextStore == StoreCall

\* any sequence of generate calls on an engine constructed on a store file
\* of any content, writable or not
SpecStore == InitStore /\ [][NextStore]_vars

\* the file holds no valid snapshot: there is none, it cannot be read, it is
\* no JSON, or one of its values is no record
InvalidStore(file) ==
  \/ file.kind # "snapshot"
  \/ \E k \in DOMAIN file.data : file.data[k].t # "object"

\* C16: persistence errors are never fatal: a generate call that finds the
\* store file missing, unreadable or without a valid snapshot returns with no
\* known rating, and a call that finds it unwritable returns and leaves the
\* file as it is
C16_PersistenceNeverFatal ==
  [][ /\ InvalidStore(cache_file) => last'.outcome = "return" /\ last'.known = None
      /\ ~cache_file.writable => last'.outcome = "return" /\ cache_file' = cache_file
    ]_vars

\* ------------------------------------------------------------------------
\* Properties of the writes of generate (specification Spec)
\* ------------------------------------------------------------------------

\* the response parsed as a record and its rating, as a float, is in [0,1]
ParsedInRange(text) ==
  /\ text.doc.t = "object"
  /\ Float(text.doc.health_safety_rating).ok
  /\ 0 <= Float(text.doc.health_safety_rating).v
  /\ Float(text.doc.health_safety_rating).v <= 1000

\* the step wrote the store file
WroteStore == last'.saves > 0 \/ cache_file' # cache_file

\* C17: a generate call writes the store file only in schema mode and only
\* when its response parsed with a rating in [0,1]; a call in blurb,
\* overview or chat mode and a schema call of any other kind leave the
\* persisted store as it was
C17_WrittenOnlyWhenAdmitted ==
  [][ WroteStore <=> (last'.mode = "schema" /\ last'.outcome = "return"
                        /\ ParsedInRange(last'.raw)) ]_vars

\* a schema call has written its record, and a blurb call answered with an
\* admissible record for another name has written nothing
C17_Witness ==
  /\ last.op = "generate"
  /\ last.mode = "blurb"
  /\ ParsedInRange(last.raw)
  /\ last.saves = 0
  /\ cache_file.kind = "snapshot"
  /\ NameKey(last.ingredient) \notin DOMAIN cache_file.data

\* ------------------------------------------------------------------------
\* The prompt composer on its own (specification SpecCompose)
\* ------------------------------------------------------------------------

\* known_rating: Optional[float]
ComposeRatings == { None, JNum(0), JNum(500), JNum(900), JNum(996), JNum(1000) }

ComposeLogs ==
  { << >>,
    << Turn("user", Prose(<< "S","a","l","t" >>)), Turn("assistant", Prose(<< "O","k" >>)) >> }

ComposeFiles ==
  { [ kind |-> "missing", data |-> EmptyStore, writable |-> TRUE ],
    [ kind |-> "snapshot", data |-> Put(EmptyStore, SaltKey, GoodDoc), writable |-> TRUE ] }

\* an engine with or without a stored record and a conversation log
InitCompose ==
  /\ cache_file \in ComposeFiles
  /\ memory = load_cache(cache_file)
  /\ chat_history \in ComposeLogs
  /\ rated = << >>
  /\ last = NoCall
  /\ batch = NoBatch
  /\ ex = IdleExtractor
  /\ Unshared

\* the state after _build_generation_prompt gave built: the method assigns
\* to no attribute of the engine
Composed(ingredient_name, mode, language, known_rating, built) ==
  /\ last' = [ NoCall EXCEPT !.op = "compose", !.ingredient = ingredient_name,
                             !.mode = mode, !.language = language,
                             !.known = known_rating, !.prompt = built.prompt,
                             !.outcome = IF built.raised THEN "raise" ELSE "return",
                             !.exc = built.exc ]
  /\ UNCHANGED << cache_file, memory, chat_history, rated, batch, ex, sh, pool >>

\* one call of _build_generation_prompt
Compose(ingredient_name, mode, language, known_rating) ==
  Composed(ingredient_name, mode, language, known_rating,
           build_generation_prompt(chat_history, ingredient_name, mode, language,
                                   known_rating))

ComposeCall ==
  \E mode \in Modes, language \in Languages :
    \E ingredient_name \in Names, known_rating \in ComposeRatings :
      Compose(ingredient_name, mode, language, known_rating)

NextCompose == ComposeCall

SpecCompose == InitCompose /\ [][NextCompose]_vars

\* the modes the claim names: short, long and structured
ComposedModes == { "blurb", "overview", "schema" }

\* the rating constraint of the composed prompt names the known rating with
\* two decimals
NamesKnownRating ==
  /\ last.outcome = "return"
  /\ last.prompt.template = last.mode
  /\ last.prompt.rating_hint = FormatRating(last.known)

UserTurn == Turn("user", Prose(last'.ingredient))

\* the step appended the user turn and then one assistant turn to the log
AppendedTwoTurns ==
  /\ Len(chat_history') = Len(chat_history) + 2
  /\ SubSeq(chat_history', 1, Len(chat_history)) = chat_history
  /\ chat_history'[Len(chat_history) + 1] = UserTurn
  /\ chat_history'[Len(chat_history) + 2].role = "assistant"

\* the last 8 entries of a log, all of them when there are fewer
MostRecent(log) ==
  [ i \in 1..(IF Len(log) < 8 THEN Len(log) ELSE 8) |->
      log[i + (IF Len(log) < 8 THEN 0 ELSE Len(log) - 8)] ]

\* a chat prompt of the call holds the most recent entries of the log with
\* the user turn of the call
HoldsUserTurn(prompt) ==
  prompt.template = "chat" =>
    prompt.context = MostRecent(Append(chat_history, UserTurn))

\* C21: a chat call appends exactly the user turn and the assistant turn to
\* the log and no other call changes the log; every chat prompt built for a
\* call holds the most recent 8 entries of the log, in order, the user turn
\* of the call included
C21_LogDiscipline ==
  [][ /\ last'.mode = "chat" => AppendedTwoTurns
      /\ last'.mode # "chat" => chat_history' = chat_history
      /\ HoldsUserTurn(last'.prompt)
      /\ HoldsUserTurn(last'.chat_prompt)
    ]_vars

\* whether the sequence p is the start of the sequence s
StartsWith(s, p) == Len(p) <= Len(s) /\ SubSeq(s, 1, Len(p)) = p

\* the reply of the chat call, as the log has it
LoggedReply == chat_history[Len(chat_history)].content

\* the returned text is the reply followed by the heading of the suggestions
ReplyThenSuggestions ==
  /\ chat_history # << >>
  /\ StartsWith(last.text.chars, Strip(LoggedReply.chars) \o FollowUpHeading)

\* C22: a chat call invokes the generator twice, once for the reply and once
\* for the suggestions, and returns the reply followed by the suggestions
\* under the heading; a call in any other valid mode invokes it once
C22_GeneratorCalls ==
  (last.op = "generate" /\ last.mode \in ValidModes) =>
    IF last.mode = "chat"
      THEN last.calls = 2 /\ ReplyThenSuggestions
      ELSE last.calls = 1

\* ------------------------------------------------------------------------
\* Properties of a generate call with an unknown mode (specification Spec)
\* ------------------------------------------------------------------------

UnknownMode(mode) == mode \notin { "blurb", "overview", "schema", "chat" }

\* C25: a generate call whose mode is none of blurb, overview, schema and
\* chat raises ValueError while the prompt is composed: the generator is not
\* invoked, and the store file and the conversation log stay as they were
C25_UnknownModeRejected ==
  [][ UnknownMode(last'.mode) =>
        /\ last'.outcome = "raise"
        /\ last'.exc = "ValueError"
        /\ last'.calls = 0
        /\ last'.saves = 0
        /\ cache_file' = cache_file
        /\ chat_history' = chat_history
    ]_vars

\* a call with the mode "list" has raised on an engine that has a stored
\* record and a conversation log
C25_Witness ==
  /\ last.op = "generate"
  /\ UnknownMode(last.mode)
  /\ last.outcome = "raise"
  /\ cache_file.kind = "snapshot"
  /\ chat_history # << >>

\* ------------------------------------------------------------------------
\* Properties of the token filter (specification SpecExtract)
\* ------------------------------------------------------------------------

\* the boilerplate marker words
MarkerWords == { Markers[m] : m \in DOMAIN Markers }

\* punctuation a name must not start or end with; the brackets of a
\* parenthetical are part of the name
EdgePunctuation == { ".", ",", ";", ":", "-" } \cup Whitespace

WellTrimmed(name) ==
  /\ name[1] \notin EdgePunctuation
  /\ name[Len(name)] \notin EdgePunctuation

\* the name passes every test of the token filter
PassesFilter(name) ==
  /\ Len(name) >= 2
  /\ ~IsDigit(name)
  /\ Lower(name) \notin AndOr
  /\ Lower(name) \notin MarkerWords

\* C23: for every input, with or without a header, every name of the result
\* has 2 characters or more, is not purely numeric, is neither "and" nor
\* "or" nor a boilerplate marker word, is title-cased, and neither starts
\* nor ends with punctuation or whitespace
C23_TokenFilter ==
  Extracted =>
    \A i \in 1..Len(ex.names) :
      /\ PassesFilter(ex.names[i])
      /\ ex.names[i] = Title(ex.names[i])
      /\ WellTrimmed(ex.names[i])

\* caller w has looked up known_rating and waits for the generator
LookedUp(w) == sh.w[w].pc = "call"

\* C24: a generate call for a key that starts after a save holding the key
\* has completed, in the same engine or in another engine on the file, has
\* a rating saved for the key as its known rating
C24_WritesVisible ==
  Shared =>
    \A w \in Workers :
      (LookedUp(w) /\ sh.w[w].promised) =>
        /\ sh.w[w].known # None
        /\ sh.w[w].known \in { GoodDoc.health_safety_rating,
                               RoundedDoc.health_safety_rating }

====
